---------------------------- MODULE Spec2Model ----------------------------
(***************************************************************************)
(* A model of the language matcher of src/src/lib.rs: the subtag and tag   *)
(* patterns, the ordered rule table, the three-pass distance computation   *)
(* with its paradigm adjustment in unsigned 16-bit arithmetic, the         *)
(* best-match selection, and the construction of the matcher from the      *)
(* rule-table data.                                                        *)
(*                                                                         *)
(* Text is kept as its sequence of lexemes: every separator or sigil       *)
(* character ("_", " ", "+", "-", "$", "!", "*") is one element and every  *)
(* maximal run of other characters is one element, so "en_*_$!enUS" is     *)
(* <<"en","_","*","_","$","!","enUS">>.  A subtag, a variable name and a   *)
(* member of a variable's value set are single runs.                       *)
(***************************************************************************)
EXTENDS Integers, Sequences, FiniteSets, TLC

----------------------------------------------------------------------------
(* Bounds of the model and constants of the program.                       *)

\* Longest rule table the data may carry.
MaxRules == 2

\* Longest candidate sequence handed to matches.
MaxCands == 2

\* Largest value of the u16 the distances are kept in.
U16Max == 65535

\* rule.distance is multiplied by DistanceScale.
DistanceScale == 10

\* matches keeps only a candidate whose distance is below NoMatchThreshold.
NoMatchThreshold == 1000

----------------------------------------------------------------------------
(* Text: lexeme sequences.                                                 *)

RECURSIVE SplitAcc(_, _, _, _)
SplitAcc(s, sep, cur, acc) ==
    IF s = <<>> THEN Append(acc, cur)
    ELSE IF Head(s) = sep
         THEN SplitAcc(Tail(s), sep, <<>>, Append(acc, cur))
         ELSE SplitAcc(Tail(s), sep, Append(cur, Head(s)), acc)

\* str::split(sep): the pieces between the separators, empty pieces kept.
Split(s, sep) == SplitAcc(s, sep, <<>>, <<>>)

\* to_string of a piece that holds no separator: its single run, or "".
ToStr(piece) == IF piece = <<>> THEN "" ELSE piece[1]

\* str::starts_with / str::strip_prefix on lexemes.
StartsWith(s, prefix) ==
    /\ Len(s) >= Len(prefix)
    /\ SubSeq(s, 1, Len(prefix)) = prefix

StripPrefix(s, prefix) == SubSeq(s, Len(prefix) + 1, Len(s))

----------------------------------------------------------------------------
(* Language identifiers and the external maximizer.                        *)

\* Option::None of a script or a region subtag.
NoTag == "<none>"

LangId(l, s, r) == [language |-> l, script |-> s, region |-> r]

LanguageSubtags == {"en", "ja", "zh"}
ScriptSubtags == {"Latn", "Jpan", "Hans", "Hant"}
RegionSubtags == {"US", "GB", "JP", "CN", "TW", "HK", "MO"}

\* LanguageIdentifier::from_str on one locale tag: language, then an optional
\* script, then an optional region, separated by "-" or by "_" (the parser
\* takes either); a subtag is told by the set it belongs to, as its length and
\* alphabet tell it.  err: the tag does not parse.
ParseLangId(tag) ==
    LET dashed == [i \in 1..Len(tag) |-> IF tag[i] = "_" THEN "-" ELSE tag[i]]
        parts == Split(dashed, "-")
        sub(i) == ToStr(parts[i])
        bad == [err |-> TRUE, id |-> LangId("und", NoTag, NoTag)]
        ok(l, s, r) == [err |-> FALSE, id |-> LangId(l, s, r)]
    IN  IF \E i \in 1..Len(parts) : Len(parts[i]) # 1 THEN bad
        ELSE IF sub(1) \notin LanguageSubtags THEN bad
        ELSE IF Len(parts) = 1 THEN ok(sub(1), NoTag, NoTag)
        ELSE IF Len(parts) = 2 /\ sub(2) \in ScriptSubtags THEN ok(sub(1), sub(2), NoTag)
        ELSE IF Len(parts) = 2 /\ sub(2) \in RegionSubtags THEN ok(sub(1), NoTag, sub(2))
        ELSE IF Len(parts) = 3 /\ sub(2) \in ScriptSubtags /\ sub(3) \in RegionSubtags
             THEN ok(sub(1), sub(2), sub(3))
        ELSE bad

\* The likely-subtags data the expander reads: by language, by language and
\* region, by language and script.
LikelyLanguage ==
    [l \in LanguageSubtags |->
        IF l = "en" THEN [script |-> "Latn", region |-> "US"]
        ELSE IF l = "ja" THEN [script |-> "Jpan", region |-> "JP"]
        ELSE [script |-> "Hans", region |-> "CN"]]

LikelyLanguageRegion ==
    [k \in {<<"zh", "TW">>, <<"zh", "HK">>, <<"zh", "MO">>} |-> "Hant"]

LikelyLanguageScript == [k \in {<<"zh", "Hant">>} |-> "TW"]

\* LocaleExpander::maximize: fills the missing script and region, never
\* changes a subtag that is present.
Maximize(id) ==
    LET dflt == LikelyLanguage[id.language]
    IN  IF id.script # NoTag /\ id.region # NoTag THEN id
        ELSE IF id.region # NoTag
             THEN IF <<id.language, id.region>> \in DOMAIN LikelyLanguageRegion
                  THEN [id EXCEPT !.script = LikelyLanguageRegion[<<id.language, id.region>>]]
                  ELSE [id EXCEPT !.script = dflt.script]
        ELSE IF id.script # NoTag
             THEN IF <<id.language, id.script>> \in DOMAIN LikelyLanguageScript
                  THEN [id EXCEPT !.region = LikelyLanguageScript[<<id.language, id.script>>]]
                  ELSE [id EXCEPT !.region = dflt.region]
        ELSE [id EXCEPT !.script = dflt.script, !.region = dflt.region]

----------------------------------------------------------------------------
(* Subtag patterns and tag patterns.                                       *)

\* Option::None of a script or region pattern.
NoRule == [kind |-> "None", arg |-> ""]

\* From<&str> for SubTagRule.
SubTagRuleFrom(s) ==
    IF s = <<"*">> THEN [kind |-> "All", arg |-> ""]
    ELSE IF StartsWith(s, <<"$", "!">>)
         THEN [kind |-> "VarExclude", arg |-> ToStr(StripPrefix(s, <<"$", "!">>))]
    ELSE IF StartsWith(s, <<"$">>)
         THEN [kind |-> "Var", arg |-> ToStr(StripPrefix(s, <<"$">>))]
    ELSE [kind |-> "Str", arg |-> ToStr(s)]

\* From<&str> for LanguageIdentifierRule: the first three "_"-separated slots.
LanguageIdentifierRuleFrom(s) ==
    LET parts == Split(s, "_")
    IN  [language |-> SubTagRuleFrom(parts[1]),
         script   |-> IF Len(parts) >= 2 THEN SubTagRuleFrom(parts[2]) ELSE NoRule,
         region   |-> IF Len(parts) >= 3 THEN SubTagRuleFrom(parts[3]) ELSE NoRule]

\* A match is "T", "F", or "P": the panic of indexing vars by a missing key.
\* a && b, b evaluated only when a is true.
AndThen(a, b) == IF a = "T" THEN b ELSE a

Bool3(b) == IF b THEN "T" ELSE "F"

\* Rule<&str> for &SubTagRule.
SubTagRule_matches(rule, tag, vars) ==
    IF rule.kind = "Str" THEN Bool3(rule.arg = tag)
    ELSE IF rule.kind = "Var"
         THEN IF rule.arg \in DOMAIN vars THEN Bool3(tag \in vars[rule.arg]) ELSE "P"
    ELSE IF rule.kind = "VarExclude"
         THEN IF rule.arg \in DOMAIN vars THEN Bool3(tag \notin vars[rule.arg]) ELSE "P"
    ELSE "T"

\* A variant of the Option match in which "*" needs a subtag to be present.
OptSubTagRule_matches_present_only(rule, tag, vars) ==
    IF rule = NoRule /\ tag = NoTag THEN "T"
    ELSE IF rule # NoRule /\ tag # NoTag THEN SubTagRule_matches(rule, tag, vars)
    ELSE "F"

\* Rule<Option<&str>> for Option<&SubTagRule>.
OptSubTagRule_matches(rule, tag, vars) ==
    IF (rule = NoRule /\ tag = NoTag) \/ rule.kind = "All" THEN "T"
    ELSE IF rule # NoRule /\ tag # NoTag THEN SubTagRule_matches(rule, tag, vars)
    ELSE "F"

\* Rule<&LanguageIdentifier> for &LanguageIdentifierRule.
LanguageIdentifierRule_matches(rule, lang, vars) ==
    AndThen(SubTagRule_matches(rule.language, lang.language, vars),
            AndThen(OptSubTagRule_matches(rule.script, lang.script, vars),
                    OptSubTagRule_matches(rule.region, lang.region, vars)))

----------------------------------------------------------------------------
(* Unsigned 16-bit arithmetic.  debug: the build checks overflow (and its  *)
(* debug assertions) and panics; otherwise the result wraps modulo 2^16.   *)

MulU16(a, b, debug) ==
    [panic |-> debug /\ a * b > U16Max, value |-> (a * b) % (U16Max + 1)]

AddU16(a, b, debug) ==
    [panic |-> debug /\ a + b > U16Max, value |-> (a + b) % (U16Max + 1)]

SubU16(a, b, debug) ==
    [panic |-> debug /\ a - b < 0, value |-> (a - b) % (U16Max + 1)]

----------------------------------------------------------------------------
(* The matcher: m = [paradiam, vars, rules].                               *)

\* LanguageMatcher::is_paradiam.
is_paradiam(m, lang) == lang \in m.paradiam

\* A variant of the test that never tries the rule swapped.
RuleApplies_forward_only(rule, desired, supported, vars) ==
    AndThen(LanguageIdentifierRule_matches(rule.desired, desired, vars),
            LanguageIdentifierRule_matches(rule.supported, supported, vars))

\* A variant of the test that tries every rule swapped, one-way or not.
RuleApplies_ignoring_oneway(rule, desired, supported, vars) ==
    LET fwd == AndThen(LanguageIdentifierRule_matches(rule.desired, desired, vars),
                       LanguageIdentifierRule_matches(rule.supported, supported, vars))
    IN  IF fwd = "F"
        THEN AndThen(LanguageIdentifierRule_matches(rule.supported, desired, vars),
                     LanguageIdentifierRule_matches(rule.desired, supported, vars))
        ELSE fwd

\* The test of one rule in distance_match: the rule as written, and, for a
\* rule that is not one-way and did not match, the rule swapped.
RuleApplies(rule, desired, supported, vars) ==
    LET fwd == AndThen(LanguageIdentifierRule_matches(rule.desired, desired, vars),
                       LanguageIdentifierRule_matches(rule.supported, supported, vars))
    IN  IF (~rule.oneway) /\ fwd = "F"
        THEN AndThen(LanguageIdentifierRule_matches(rule.supported, desired, vars),
                     LanguageIdentifierRule_matches(rule.desired, supported, vars))
        ELSE fwd

\* What a lookup reports: how it ended, the index of the rule it ended at
\* (0: none), rule.distance * 10, whether the paradigm adjustment applied,
\* and the value returned.
Lookup(outcome, fault, i, base, discount, value) ==
    [outcome |-> outcome, fault |-> fault, rule |-> i, base |-> base,
     discount |-> discount, value |-> value]

NoLookup == Lookup("none", "none", 0, 0, FALSE, 0)

\* A variant of the adjustment that applies when either tag is a paradigm
\* locale, not when exactly one is.
RuleDistance_either_paradigm(m, i, desired, supported, debug) ==
    LET scaled == MulU16(m.rules[i].distance, DistanceScale, debug)
        discount == is_paradiam(m, desired) \/ is_paradiam(m, supported)
        less == SubU16(scaled.value, 1, debug)
    IN  IF scaled.panic
        THEN Lookup("panic", "mul_overflow", i, scaled.value, FALSE, 0)
        ELSE IF ~discount
        THEN Lookup("ok", "none", i, scaled.value, FALSE, scaled.value)
        ELSE IF less.panic
        THEN Lookup("panic", "sub_overflow", i, scaled.value, TRUE, 0)
        ELSE Lookup("ok", "none", i, scaled.value, TRUE, less.value)

\* The body of "if matches" in distance_match: rule i matched.
RuleDistance(m, i, desired, supported, debug) ==
    LET scaled == MulU16(m.rules[i].distance, DistanceScale, debug)
        discount == is_paradiam(m, desired) # is_paradiam(m, supported)
        less == SubU16(scaled.value, 1, debug)
    IN  IF scaled.panic
        THEN Lookup("panic", "mul_overflow", i, scaled.value, FALSE, 0)
        ELSE IF ~discount
        THEN Lookup("ok", "none", i, scaled.value, FALSE, scaled.value)
        ELSE IF less.panic
        THEN Lookup("panic", "sub_overflow", i, scaled.value, TRUE, 0)
        ELSE Lookup("ok", "none", i, scaled.value, TRUE, less.value)

RECURSIVE ScanRules(_, _, _, _, _)
ScanRules(m, desired, supported, debug, i) ==
    IF i > Len(m.rules)
    THEN Lookup("panic", "unreachable", 0, 0, FALSE, 0)
    ELSE LET matches == RuleApplies(m.rules[i], desired, supported, m.vars)
         IN  IF matches = "P" THEN Lookup("panic", "missing_key", i, 0, FALSE, 0)
             ELSE IF matches = "T" THEN RuleDistance(m, i, desired, supported, debug)
             ELSE ScanRules(m, desired, supported, debug, i + 1)

\* LanguageMatcher::distance_match.
distance_match(m, desired, supported, debug) ==
    ScanRules(m, desired, supported, debug, 1)

\* A variant of the guard that looks a rule up on every pass.
Differs_always(a, b) == TRUE

\* The guard of a pass of distance_impl: the two subtags differ.
Differs(a, b) == a # b

\* One pass of distance_impl over dimension dim ("region", "script" or
\* "language"): the lookup if the dimension differs, the sum, and the
\* clearing of the dimension on both identifiers.  A pass after a panic is
\* not reached.
RunPass(m, st, dim, debug) ==
    IF st.outcome # "ok"
    THEN [st EXCEPT !.passes = Append(@, [ran |-> FALSE, desired |-> st.desired,
                                          supported |-> st.supported, look |-> NoLookup])]
    ELSE LET ran == Differs(st.desired[dim], st.supported[dim])
             look == IF ran THEN distance_match(m, st.desired, st.supported, debug)
                     ELSE NoLookup
             sum == AddU16(st.value, look.value, debug)
             pass == [ran |-> ran, desired |-> st.desired, supported |-> st.supported,
                      look |-> look]
             clear(x) == IF dim = "language" THEN x ELSE [x EXCEPT ![dim] = NoTag]
         IN  IF look.outcome = "panic"
             THEN [st EXCEPT !.outcome = "panic", !.fault = look.fault, !.value = 0,
                             !.passes = Append(@, pass)]
             ELSE IF sum.panic
             THEN [st EXCEPT !.outcome = "panic", !.fault = "add_overflow", !.value = 0,
                             !.passes = Append(@, pass)]
             ELSE [st EXCEPT !.value = sum.value, !.passes = Append(@, pass),
                             !.desired = clear(@), !.supported = clear(@)]

\* The passes of distance_impl in their order.
RECURSIVE RunPasses(_, _, _, _)
RunPasses(m, st, dims, debug) ==
    IF dims = <<>> THEN st
    ELSE RunPasses(m, RunPass(m, st, Head(dims), debug), Tail(dims), debug)

\* LanguageMatcher::distance_impl.
distance_impl(m, desired, supported, debug) ==
    LET asserted == /\ desired.region # NoTag /\ desired.script # NoTag
                    /\ supported.region # NoTag /\ supported.script # NoTag
        start == [outcome |-> IF debug /\ ~asserted THEN "panic" ELSE "ok",
                  fault |-> IF debug /\ ~asserted THEN "debug_assert" ELSE "none",
                  value |-> 0, passes |-> <<>>,
                  desired |-> desired, supported |-> supported]
        done == RunPasses(m, start, <<"region", "script", "language">>, debug)
    IN  [outcome |-> done.outcome, fault |-> done.fault, value |-> done.value,
         passes |-> done.passes]

\* LanguageMatcher::distance.
LanguageMatcher_distance(m, desired, supported, debug) ==
    distance_impl(m, Maximize(desired), Maximize(supported), debug)

RECURSIVE MinFrom(_, _, _)
MinFrom(keys, best, i) ==
    IF i > Len(keys) THEN best
    ELSE MinFrom(keys, IF keys[best] > keys[i] THEN i ELSE best, i + 1)

RECURSIVE MinFromLast(_, _, _)
MinFromLast(keys, best, i) ==
    IF i > Len(keys) THEN best
    ELSE MinFromLast(keys, IF keys[best] >= keys[i] THEN i ELSE best, i + 1)

\* A variant of min_by_key that keeps the last of several equal minima.
MinByKey_last(keys) == IF keys = <<>> THEN 0 ELSE MinFromLast(keys, 1, 2)

\* Iterator::min_by_key over the keys: the index of the element kept (0 for
\* an empty sequence); an element is replaced only by a strictly smaller one.
MinByKey(keys) == IF keys = <<>> THEN 0 ELSE MinFrom(keys, 1, 2)

\* A variant of matches without its filter.
Acceptable_unfiltered(dis) == TRUE

\* The filter of matches.
Acceptable(dis) == dis < NoMatchThreshold

NoItem == LangId("und", NoTag, NoTag)

\* The map of matches: the distance of each candidate's maximized copy to
\* the maximized desired identifier.
MapDistances(m, max_desired, supported, debug) ==
    [i \in 1..Len(supported) |->
        distance_impl(m, max_desired, Maximize(supported[i]), debug)]

\* min_by_key and filter over the mapped candidates; a panic of the map at a
\* candidate ends the call there.  scores: the distance mapped to each candidate.
SelectBest(supported, dist) ==
    LET bad == {i \in 1..Len(supported) : dist[i].outcome = "panic"}
        first_bad == CHOOSE i \in bad : \A j \in bad : i <= j
        scores == [i \in 1..Len(supported) |-> dist[i].value]
        best == MinByKey(scores)
    IN  IF bad # {}
        THEN [outcome |-> "panic", fault |-> dist[first_bad].fault, found |-> FALSE,
              index |-> 0, item |-> NoItem, dis |-> 0, scores |-> <<>>]
        ELSE IF best # 0 /\ Acceptable(scores[best])
        THEN [outcome |-> "ok", fault |-> "none", found |-> TRUE, index |-> best,
              item |-> supported[best], dis |-> scores[best], scores |-> scores]
        ELSE [outcome |-> "ok", fault |-> "none", found |-> FALSE, index |-> 0,
              item |-> NoItem, dis |-> 0, scores |-> scores]

\* LanguageMatcher::matches.
LanguageMatcher_matches(m, desired, supported, debug) ==
    CHOOSE r \in { SelectBest(supported, dist) :
                     dist \in {MapDistances(m, Maximize(desired), supported, debug)} } : TRUE

----------------------------------------------------------------------------
(* Construction: From<SupplementalData> for LanguageMatcher.               *)

NoVars == [k \in {} |-> {}]

NoMatcher == [paradiam |-> {}, vars |-> NoVars, rules |-> <<>>]

\* The ParadigmLocales arm: split on " ", parse (unwrap), maximize, extend.
FromParadigmLocales(item, st) ==
    LET parsed == [i \in DOMAIN Split(item.locales, " ") |->
                      ParseLangId(Split(item.locales, " ")[i])]
    IN  IF \E i \in DOMAIN parsed : parsed[i].err
        THEN [st EXCEPT !.panic = TRUE]
        ELSE [st EXCEPT !.paradiam = @ \cup {Maximize(parsed[i].id) : i \in DOMAIN parsed}]

\* The MatchVariable arm: assert the sigil, insert id[1..] with the set of
\* the "+"-separated values (an insert replaces an earlier one).
FromMatchVariable(item, st) ==
    LET key == ToStr(StripPrefix(item.id, <<"$">>))
        pieces == Split(item.value, "+")
        set == {ToStr(pieces[i]) : i \in DOMAIN pieces}
    IN  IF ~StartsWith(item.id, <<"$">>)
        THEN [st EXCEPT !.panic = TRUE]
        ELSE [st EXCEPT !.vars = [k \in DOMAIN @ \cup {key} |->
                                     IF k = key THEN set ELSE @[k]]]

\* A variant of the LanguageMatch arm that drops a rule referring to a
\* variable not defined so far.
FromLanguageMatch_checked(item, st) ==
    IF \E p \in {item.m.desired, item.m.supported} :
          \E f \in {"language", "script", "region"} :
              p[f].kind \in {"Var", "VarExclude"} /\ p[f].arg \notin DOMAIN st.vars
    THEN st
    ELSE [st EXCEPT !.rules = Append(@, item.m)]

\* The LanguageMatch arm: push the rule.
FromLanguageMatch(item, st) == [st EXCEPT !.rules = Append(@, item.m)]

FromItem(item, st) ==
    IF item.item = "paradigmLocales" THEN FromParadigmLocales(item, st)
    ELSE IF item.item = "matchVariable" THEN FromMatchVariable(item, st)
    ELSE FromLanguageMatch(item, st)

RECURSIVE FromItems(_, _)
FromItems(items, st) ==
    IF items = <<>> \/ st.panic THEN st
    ELSE FromItems(Tail(items), FromItem(Head(items), st))

\* From<SupplementalData> for LanguageMatcher: panic, or the matcher.
LanguageMatcherFrom(items) ==
    FromItems(items, [panic |-> FALSE, paradiam |-> {}, vars |-> NoVars, rules |-> <<>>])

----------------------------------------------------------------------------
(* The rule-table data the matcher may be built from.                      *)

\* A languageMatch element as deserialized: the two pattern texts through
\* From<String> for LanguageIdentifierRule, oneway defaulting to false.
LanguageMatch(desired, supported, distance, oneway) ==
    [item |-> "languageMatch",
     m |-> [desired |-> LanguageIdentifierRuleFrom(desired),
            supported |-> LanguageIdentifierRuleFrom(supported),
            distance |-> distance, oneway |-> oneway]]

ParadigmLocales(locales) == [item |-> "paradigmLocales", locales |-> locales]

MatchVariable(id, value) == [item |-> "matchVariable", id |-> id, value |-> value]

\* The rules a table is drawn from, base distances in 0..100.
RulePool ==
    { LanguageMatch(<<"*", "_", "*", "_", "*">>, <<"*", "_", "*", "_", "*">>, 4, FALSE),
      LanguageMatch(<<"*", "_", "*">>, <<"*", "_", "*">>, 50, FALSE),
      LanguageMatch(<<"*">>, <<"*">>, 80, FALSE),
      LanguageMatch(<<"zh", "_", "Hans">>, <<"zh", "_", "Hant">>, 15, TRUE),
      LanguageMatch(<<"en", "_", "*", "_", "$", "enUS">>,
                    <<"en", "_", "*", "_", "$", "!", "enUS">>, 0, FALSE) }

Tables == UNION {[1..n -> RulePool] : n \in 0..MaxRules}

\* One locale, two locales, and a text whose second locale does not parse.
ParadigmTexts ==
    { <<"en">>, <<"en", " ", "en", "_", "GB">>, <<"en", " ", "x">> }

\* No variable, the variable the pool refers to, a variable without its sigil.
VariableLists ==
    { <<>>,
      <<MatchVariable(<<"$", "enUS">>, <<"US", "+", "CN">>)>>,
      <<MatchVariable(<<"enUS">>, <<"US", "+", "CN">>)>> }

DataSet ==
    { <<ParadigmLocales(p)>> \o v \o t :
        p \in ParadigmTexts, v \in VariableLists, t \in Tables }

\* The identifiers a query is made with, as the caller gives them.
Ids ==
    { LangId("en", NoTag, NoTag), LangId("en", "Latn", "GB"),
      LangId("zh", NoTag, NoTag), LangId("zh", "Hans", NoTag),
      LangId("zh", NoTag, "TW") }

\* The identifiers a candidate sequence is made of.
Candidates == Ids \ {LangId("en", "Latn", "GB")}

CandidateSeqs == UNION {[1..n -> Candidates] : n \in 0..MaxCands}

----------------------------------------------------------------------------
(* The state machine: build the matcher once, then query it.               *)

VARIABLES
    data,       \* the SupplementalData the matcher is built from
    matcher,    \* the LanguageMatcher, once built
    pc,         \* "start", "ready", "returned", or "failed" (construction panicked)
    call,       \* the query in progress: its operation and arguments
    res         \* what the query returned, or how it panicked

vars == <<data, matcher, pc, call, res>>

NoCall == [op |-> "none"]

NoRes == [outcome |-> "none"]

Init ==
    /\ data \in DataSet
    /\ matcher = NoMatcher
    /\ pc = "start"
    /\ call = NoCall
    /\ res = NoRes

\* LanguageMatcher::new / From<SupplementalData>::from.
New ==
    /\ pc = "start"
    /\ LET built == LanguageMatcherFrom(data)
       IN  IF built.panic
           THEN /\ pc' = "failed"
                /\ matcher' = matcher
           ELSE /\ pc' = "ready"
                /\ matcher' = [paradiam |-> built.paradiam, vars |-> built.vars,
                               rules |-> built.rules]
    /\ UNCHANGED <<data, call, res>>

\* A call of LanguageMatcher::distance.  debug: whether the build the call
\* runs in checks overflow, which the source does not fix.
Distance ==
    /\ pc = "ready"
    /\ \E desired \in Ids, supported \in Ids, debug \in BOOLEAN :
        /\ call' = [op |-> "distance", desired |-> desired, supported |-> supported]
        /\ res' = LanguageMatcher_distance(matcher, desired, supported, debug)
    /\ pc' = "returned"
    /\ UNCHANGED <<data, matcher>>

\* A call of LanguageMatcher::matches.
Matches ==
    /\ pc = "ready"
    /\ \E desired \in Ids, supported \in CandidateSeqs, debug \in BOOLEAN :
        /\ call' = [op |-> "matches", desired |-> desired, supported |-> supported]
        /\ res' = LanguageMatcher_matches(matcher, desired, supported, debug)
    /\ pc' = "returned"
    /\ UNCHANGED <<data, matcher>>

\* The caller takes the result; the matcher is unchanged and may be queried again.
Return ==
    /\ pc = "returned"
    /\ pc' = "ready"
    /\ call' = NoCall
    /\ res' = NoRes
    /\ UNCHANGED <<data, matcher>>

Next == New \/ Distance \/ Matches \/ Return

Spec == Init /\ [][Next]_vars

----------------------------------------------------------------------------
(* Vocabulary of the properties.                                           *)

DistanceReturned == pc = "returned" /\ call.op = "distance"

MatchesReturned == pc = "returned" /\ call.op = "matches"

Dims == <<"region", "script", "language">>

\* The identifier as pass k of the distance computation sees it: the
\* dimensions of the earlier passes cleared.
TagAtPass(id, k) ==
    IF k = 1 THEN id
    ELSE IF k = 2 THEN [id EXCEPT !.region = NoTag]
    ELSE [id EXCEPT !.region = NoTag, !.script = NoTag]

\* The passes of the returned distance call in which a rule matched.
MatchedPasses ==
    {k \in 1..3 : res.passes[k].ran /\ res.passes[k].look.rule # 0
                  /\ res.passes[k].look.fault \in {"none", "sub_overflow"}}

\* Rule r is met by the pair as written / with the pair swapped.
Forward(r, d, s) ==
    /\ LanguageIdentifierRule_matches(r.desired, d, matcher.vars) = "T"
    /\ LanguageIdentifierRule_matches(r.supported, s, matcher.vars) = "T"

Swapped(r, d, s) ==
    /\ LanguageIdentifierRule_matches(r.supported, d, matcher.vars) = "T"
    /\ LanguageIdentifierRule_matches(r.desired, s, matcher.vars) = "T"

ExactlyOneParadigm(d, s) == (d \in matcher.paradiam) # (s \in matcher.paradiam)

\* The distances a candidate can score against the maximized desired identifier.
ScoresOf(desired, candidate) ==
    {distance_impl(matcher, Maximize(desired), Maximize(candidate), debug).value :
        debug \in {b \in BOOLEAN :
            distance_impl(matcher, Maximize(desired), Maximize(candidate), b).outcome = "ok"}}

----------------------------------------------------------------------------
(* C1 and C2: best-match selection.                                        *)

\* C1: matches never returns a candidate whose distance to the maximized
\* desired identifier is 1000 or more; when every candidate scores 1000 or
\* more, or there is no candidate, it returns None.
C1_NoFarCandidate ==
    (MatchesReturned /\ res.outcome = "ok") =>
        /\ res.found =>
              /\ res.dis < NoMatchThreshold
              /\ res.index \in 1..Len(call.supported)
              /\ res.item = call.supported[res.index]
              /\ res.dis \in ScoresOf(call.desired, res.item)
        /\ (\A i \in 1..Len(call.supported) :
               \A d \in ScoresOf(call.desired, call.supported[i]) : d >= NoMatchThreshold)
              => ~res.found

\* C1 witnesses: candidates were given, all of them 1000 or more away, and
\* None was returned.
C1_Witness ==
    /\ MatchesReturned /\ res.outcome = "ok" /\ ~res.found
    /\ Len(call.supported) = MaxCands
    /\ \A i \in 1..Len(call.supported) : res.scores[i] >= NoMatchThreshold

\* C2: over a non-empty candidate sequence whose smallest distance is below
\* 1000, matches returns the candidate as given (not its maximized copy) at
\* the smallest index whose distance, taken between the maximized desired and
\* the maximized candidate, is the smallest, together with that distance.
C2_FirstMinimum ==
    (/\ MatchesReturned /\ res.outcome = "ok"
     /\ \E i \in 1..Len(call.supported) : res.scores[i] < NoMatchThreshold) =>
        /\ \A i \in 1..Len(call.supported) :
              res.scores[i] \in ScoresOf(call.desired, call.supported[i])
        /\ res.found
        /\ res.index \in 1..Len(call.supported)
        /\ \A i \in 1..Len(call.supported) : res.scores[res.index] <= res.scores[i]
        /\ \A i \in 1..(res.index - 1) : res.scores[i] > res.scores[res.index]
        /\ res.item = call.supported[res.index]
        /\ res.dis = res.scores[res.index]

\* C2 witness: two candidates tie on the minimum, the second is a different
\* identifier, and the first is returned as given, not maximized.
C2_Witness ==
    /\ MatchesReturned /\ res.outcome = "ok" /\ res.found
    /\ \E j \in (res.index + 1)..Len(call.supported) :
          /\ res.scores[j] = res.dis
          /\ call.supported[j] # res.item
    /\ res.item # Maximize(res.item)
    /\ res.dis > 0

----------------------------------------------------------------------------
(* C3: identity.                                                           *)

\* C3: two identifiers that maximize to the same identifier have distance 0,
\* and no rule is looked up for a dimension on which the two maximized
\* identifiers agree.
C3_Identity ==
    DistanceReturned =>
        /\ Maximize(call.desired) = Maximize(call.supported) =>
              (res.outcome = "ok" /\ res.value = 0)
        /\ \A k \in 1..3 :
              Maximize(call.desired)[Dims[k]] = Maximize(call.supported)[Dims[k]]
                 => ~res.passes[k].ran

\* C3 witness: two different identifiers with the same maximized form, over a
\* table that has rules, at distance 0.
C3_Witness ==
    /\ DistanceReturned
    /\ call.desired # call.supported
    /\ Maximize(call.desired) = Maximize(call.supported)
    /\ Len(matcher.rules) > 0
    /\ res.value = 0

----------------------------------------------------------------------------
(* C4: symmetry.                                                           *)

\* The distance call with its arguments exchanged, under the same build, has
\* the same outcome and the same value.
SymmetricCall ==
    \A debug \in BOOLEAN :
        LET ab == LanguageMatcher_distance(matcher, call.desired, call.supported, debug)
            ba == LanguageMatcher_distance(matcher, call.supported, call.desired, debug)
        IN  ab = res => (ba.outcome = ab.outcome /\ ba.value = ab.value)

\* Rule r tested on the pair in either orientation, whatever its oneway flag:
\* "T", "F", or "P" when the test indexes vars by a missing key.
EitherWay(r, d, s) ==
    LET written == AndThen(LanguageIdentifierRule_matches(r.desired, d, matcher.vars),
                           LanguageIdentifierRule_matches(r.supported, s, matcher.vars))
    IN  IF written = "F"
        THEN AndThen(LanguageIdentifierRule_matches(r.supported, d, matcher.vars),
                     LanguageIdentifierRule_matches(r.desired, s, matcher.vars))
        ELSE written

\* The first rule of the table that is met by the pair in either orientation
\* exists and is not one-way (no earlier rule is met, whichever of the two is
\* taken as desired).
FirstMatchIsTwoWay(d, s) ==
    \E i \in 1..Len(matcher.rules) :
        /\ ~matcher.rules[i].oneway
        /\ EitherWay(matcher.rules[i], d, s) = "T"
        /\ \A j \in 1..(i - 1) :
              /\ EitherWay(matcher.rules[j], d, s) = "F"
              /\ EitherWay(matcher.rules[j], s, d) = "F"

\* C4 as stated: two maximized identifiers met by a common rule that is not
\* one-way are at the same distance in both directions, whatever one-way
\* rules the table holds before or after that rule.  (Stated of the calls
\* that return in both directions: a distance is a returned value.)
C4_Original ==
    (/\ DistanceReturned /\ res.outcome = "ok"
     /\ \E i \in 1..Len(matcher.rules) :
           /\ ~matcher.rules[i].oneway
           /\ \/ Forward(matcher.rules[i], Maximize(call.desired), Maximize(call.supported))
              \/ Swapped(matcher.rules[i], Maximize(call.desired), Maximize(call.supported)))
        => \A debug \in BOOLEAN :
              LET ab == LanguageMatcher_distance(matcher, call.desired, call.supported, debug)
                  ba == LanguageMatcher_distance(matcher, call.supported, call.desired, debug)
              IN  (ab = res /\ ba.outcome = "ok") => ba.value = ab.value

\* C4 amended: when, in every pass whose dimension differs, the first rule
\* met by the pair in either orientation is not one-way, the distance is the
\* same in both directions; one-way rules after that rule do not matter.
C4_SymmetricWhenFirstMatchTwoWay ==
    (/\ DistanceReturned
     /\ \A k \in 1..3 :
           Maximize(call.desired)[Dims[k]] # Maximize(call.supported)[Dims[k]] =>
              FirstMatchIsTwoWay(TagAtPass(Maximize(call.desired), k),
                                 TagAtPass(Maximize(call.supported), k)))
        => SymmetricCall

\* C4 witness: the two identifiers differ, a rule that is not one-way wins
\* each pass although the table also holds a one-way rule, and the distance is
\* not 0.
C4_Witness ==
    /\ DistanceReturned /\ res.outcome = "ok" /\ res.value > 0
    /\ \E i \in 1..Len(matcher.rules) : matcher.rules[i].oneway
    /\ \E k \in 1..3 : res.passes[k].ran
    /\ \A k \in 1..3 :
           Maximize(call.desired)[Dims[k]] # Maximize(call.supported)[Dims[k]] =>
              FirstMatchIsTwoWay(TagAtPass(Maximize(call.desired), k),
                                 TagAtPass(Maximize(call.supported), k))

----------------------------------------------------------------------------
(* C5, C6, C10: the range of the distance and its 16-bit arithmetic.       *)

\* A pass whose winning rule has base distance 0 while exactly one of the two
\* tags is a paradigm locale: the adjustment subtracts 1 from 0.
UnderflowPass(k) ==
    /\ k \in MatchedPasses
    /\ matcher.rules[res.passes[k].look.rule].distance = 0
    /\ ExactlyOneParadigm(res.passes[k].desired, res.passes[k].supported)

\* C5 as stated: when a rule matches on every pass, the distance returned is
\* in [0, 1000).  (Stated of the calls in which no pass subtracts 1 from 0, so
\* that its failure does not rest on the wrap of C10.)
C5_Original ==
    (DistanceReturned /\ res.outcome = "ok" /\ \A k \in 1..3 : ~UnderflowPass(k)) =>
        (res.value >= 0 /\ res.value < NoMatchThreshold)

\* C5 amended: with base distances in 0..100 every pass contributes at most
\* 1000 and the distance returned is at most 3000, not below 1000; only when
\* a pass subtracted 1 from 0 (C10) does that pass contribute 65535 and the
\* sum, wrapped, lie in 65533..65535 or below 2000.
C5_RangeOfDistance ==
    (DistanceReturned /\ res.outcome = "ok") =>
        /\ \A k \in 1..3 :
              \/ res.passes[k].look.value \in 0..(100 * DistanceScale)
              \/ UnderflowPass(k) /\ res.passes[k].look.value = U16Max
        /\ \/ res.value \in 0..(3 * 100 * DistanceScale)
           \/ /\ res.value \in (U16Max - 2)..U16Max
              /\ \E k \in 1..3 : UnderflowPass(k)

\* C5 witness: all three passes found a rule, none subtracted from 0, and the
\* sum is 1000 or more.
C5_Witness ==
    /\ DistanceReturned /\ res.outcome = "ok"
    /\ MatchedPasses = 1..3
    /\ \A k \in 1..3 : ~UnderflowPass(k)
    /\ res.value >= NoMatchThreshold

\* C6 as stated: a lookup whose winning rule has base distance d returns
\* d*10 - 1 when exactly one of the two tags given to that lookup is in the
\* paradigm set and d*10 otherwise.
C6_ParadigmDiscount ==
    DistanceReturned =>
        \A k \in 1..3 :
            (res.passes[k].ran /\ res.passes[k].look.outcome = "ok") =>
                LET p == res.passes[k]
                    d == matcher.rules[p.look.rule].distance
                IN  p.look.value = IF ExactlyOneParadigm(p.desired, p.supported)
                                   THEN d * 10 - 1 ELSE d * 10

\* C10 as stated: the 16-bit arithmetic never wraps: the adjustment never
\* subtracts 1 from 0, and neither the product nor the sum exceeds 65535.
C10_NoWrap ==
    DistanceReturned =>
        /\ \A k \in 1..3 : ~UnderflowPass(k)
        /\ \A k \in MatchedPasses :
              matcher.rules[res.passes[k].look.rule].distance * 10 <= U16Max
        /\ res.fault \notin {"mul_overflow", "add_overflow", "sub_overflow"}

----------------------------------------------------------------------------
(* C7: construction from malformed data.                                   *)

\* The rules of the data, in their order.
RulesOf(d) ==
    LET items == SelectSeq(d, LAMBDA x : x.item = "languageMatch")
    IN  [i \in 1..Len(items) |-> items[i].m]

\* The variable names the data defines / its rules refer to.
DefinedNames(d) ==
    {ToStr(StripPrefix(d[i].id, <<"$">>)) :
        i \in {j \in 1..Len(d) : d[j].item = "matchVariable" /\ StartsWith(d[j].id, <<"$">>)}}

ReferredNames(d) ==
    UNION {{p[f].arg : f \in {g \in {"language", "script", "region"} :
                                 p[g].kind \in {"Var", "VarExclude"}}} :
             p \in UNION {{RulesOf(d)[i].desired, RulesOf(d)[i].supported} :
                             i \in 1..Len(RulesOf(d))}}

RefersToUndefinedVariable(d) == ~(ReferredNames(d) \subseteq DefinedNames(d))

\* The pattern that any identifier meets, with or without script and region.
IsWildcard(p) == p.language.kind = "All" /\ p.script.kind = "All" /\ p.region.kind = "All"

IsUniversalFallback(r) == IsWildcard(r.desired) /\ IsWildcard(r.supported)

LacksUniversalFallback(d) ==
    ~\E i \in 1..Len(RulesOf(d)) : IsUniversalFallback(RulesOf(d)[i])

\* What construction itself rejects: a paradigm locale that does not parse, a
\* variable id without its sigil.
RejectedByConstruction(d) ==
    \E i \in 1..Len(d) :
        \/ /\ d[i].item = "matchVariable"
           /\ ~StartsWith(d[i].id, <<"$">>)
        \/ /\ d[i].item = "paradigmLocales"
           /\ \E j \in DOMAIN Split(d[i].locales, " ") :
                 ParseLangId(Split(d[i].locales, " ")[j]).err

\* C7 as stated: no matcher is ever built from data that refers to an
\* undefined variable or lacks a universal fallback rule, so that fault never
\* first surfaces in a query.
C7_Original ==
    /\ pc \in {"ready", "returned"} =>
          ~(RefersToUndefinedVariable(data) \/ LacksUniversalFallback(data))
    /\ pc = "returned" => res.fault \notin {"missing_key", "unreachable"}

\* C7 amended: construction checks neither: it fails only on a paradigm
\* locale that does not parse or a variable id without its sigil, and
\* otherwise builds a matcher holding every rule of the data in order, also
\* rules that refer to undefined variables and tables without a fallback; the
\* fault first surfaces as the panic of a later query, on a missing variable
\* only with data that refers to an undefined one, on no rule matching only
\* with data that lacks the universal fallback.
C7_FaultSurfacesAtQuery ==
    /\ pc = "failed" => RejectedByConstruction(data)
    /\ pc \in {"ready", "returned"} =>
          (~RejectedByConstruction(data) /\ matcher.rules = RulesOf(data))
    /\ (pc = "returned" /\ res.fault = "missing_key") => RefersToUndefinedVariable(data)
    /\ (pc = "returned" /\ res.fault = "unreachable") => LacksUniversalFallback(data)

\* C7 witness: a matcher built from data that refers to an undefined variable
\* and lacks the fallback, queried, and the query panicked on the missing
\* variable.
C7_Witness ==
    /\ pc = "returned"
    /\ RefersToUndefinedVariable(data) /\ LacksUniversalFallback(data)
    /\ matcher.rules = RulesOf(data)
    /\ res.outcome = "panic" /\ res.fault = "missing_key"

----------------------------------------------------------------------------
(* C8 and C9: rule lookup.                                                 *)

\* Rule i of the table is met by the pair given to a lookup.
RuleMet(i, d, s) ==
    \/ Forward(matcher.rules[i], d, s)
    \/ ~matcher.rules[i].oneway /\ Swapped(matcher.rules[i], d, s)

\* C8: a lookup returns from the lowest-index rule that is met as written, or
\* swapped when the rule is not one-way, with that rule's base distance times
\* 10 before the paradigm adjustment; a one-way rule is never applied swapped;
\* the lookup reaches the end of the table only when no rule is met.
C8_FirstMatchWins ==
    DistanceReturned =>
        \A k \in 1..3 :
            LET p == res.passes[k]
                i == p.look.rule
            IN  /\ k \in MatchedPasses =>
                      /\ i \in 1..Len(matcher.rules)
                      /\ RuleMet(i, p.desired, p.supported)
                      /\ \A j \in 1..(i - 1) : ~RuleMet(j, p.desired, p.supported)
                      /\ matcher.rules[i].oneway => Forward(matcher.rules[i], p.desired, p.supported)
                      /\ p.look.base = matcher.rules[i].distance * 10
                      /\ p.look.outcome = "ok" =>
                            p.look.value \in {p.look.base, (p.look.base - 1) % (U16Max + 1)}
                /\ (p.ran /\ p.look.fault = "unreachable") =>
                      \A j \in 1..Len(matcher.rules) : ~RuleMet(j, p.desired, p.supported)

\* C8 witness: the first rule is one-way and met only by the swapped pair, so
\* it is passed over and the second rule wins the pass.
C8_Witness ==
    /\ DistanceReturned
    /\ \E k \in MatchedPasses :
          LET p == res.passes[k]
          IN  /\ p.look.rule = 2
              /\ matcher.rules[1].oneway
              /\ Swapped(matcher.rules[1], p.desired, p.supported)
              /\ ~Forward(matcher.rules[1], p.desired, p.supported)

\* The table of the matcher holds the universal fallback rule.
HasUniversalFallback ==
    \E i \in 1..Len(matcher.rules) : IsUniversalFallback(matcher.rules[i])

\* A pattern all of whose slots are the wildcard: *, *_* or *_*_*.
IsWildcardPattern(p) ==
    /\ p.language.kind = "All"
    /\ p.script.kind \in {"All", "None"}
    /\ p.region.kind \in {"All", "None"}

IsWildcardRule(r) == IsWildcardPattern(r.desired) /\ IsWildcardPattern(r.supported)

HasWildcardRule == \E i \in 1..Len(matcher.rules) : IsWildcardRule(matcher.rules[i])

\* C9 as stated: with a wildcard/wildcard rule in the table, the lookup of
\* every pass that runs returns from some rule.  (Stated of the calls in which
\* no pass subtracts 1 from 0, so that its failure does not rest on C10.)
C9_Original ==
    (DistanceReturned /\ HasWildcardRule /\ \A k \in 1..3 : ~UnderflowPass(k)) =>
        \A k \in 1..3 :
            res.passes[k].ran =>
                /\ res.passes[k].look.outcome = "ok"
                /\ res.passes[k].look.rule \in 1..Len(matcher.rules)

\* A wildcard pattern is met by every tag of pass k: an absent slot of the
\* pattern is met only by a tag whose subtag pass k sees cleared.
PatternCoversPass(p, k) ==
    /\ p.language.kind = "All"
    /\ p.script.kind = "All" \/ (p.script.kind = "None" /\ k = 3)
    /\ p.region.kind = "All" \/ (p.region.kind = "None" /\ k >= 2)

CoversPass(r, k) == PatternCoversPass(r.desired, k) /\ PatternCoversPass(r.supported, k)

\* C9: a wildcard/wildcard rule keeps the lookup of a pass from the
\* no-rule-matched point in the passes it covers: *_*_* in all three, *_* in
\* the script and language passes, * in the language pass only.  The lookup of
\* a covered pass ends at a rule at or before the wildcard rule; it returns
\* from a rule that is met, unless it panics on a variable the data does not
\* define or on the subtraction of 1 from a base distance 0.  With *_*_* in
\* the table no query ends at the no-rule-matched point.
C9_FallbackAlwaysMatches ==
    pc = "returned" =>
        /\ HasUniversalFallback => res.fault # "unreachable"
        /\ call.op = "distance" =>
              \A k \in 1..3 : \A i \in 1..Len(matcher.rules) :
                  (res.passes[k].ran /\ CoversPass(matcher.rules[i], k)) =>
                      LET p == res.passes[k]
                      IN  /\ p.look.fault # "unreachable"
                          /\ p.look.rule \in 1..i
                          /\ \/ /\ p.look.fault = "missing_key"
                                /\ RefersToUndefinedVariable(data)
                             \/ /\ k \in MatchedPasses
                                /\ RuleMet(p.look.rule, p.desired, p.supported)
                                /\ p.look.outcome = "panic" => UnderflowPass(k)

\* C9 witness: a rule that is not the fallback comes first, all three passes
\* ran, and the language pass, with script and region cleared, was won by the
\* fallback.
C9_Witness ==
    /\ DistanceReturned /\ HasUniversalFallback /\ res.outcome = "ok"
    /\ \A k \in 1..3 : res.passes[k].ran
    /\ ~IsUniversalFallback(matcher.rules[1])
    /\ IsUniversalFallback(matcher.rules[res.passes[3].look.rule])
    /\ res.passes[3].desired.script = NoTag /\ res.passes[3].desired.region = NoTag

=============================================================================
